---- MODULE Spec2Model ----
(***************************************************************************)
(* Model of rust-backend-scaffolder (src/main.rs): a command-line tool     *)
(* with three sub-commands (scaffold, list, add).  The state is the file   *)
(* system below the working directory (one entry per project directory),   *)
(* the dependency table of the manifest in the working directory, and, for *)
(* the invocation in progress, its parsed arguments, its position in       *)
(* main/scaffold_project, the helper and sub-process calls it has made     *)
(* with their results, the lines it has printed and its exit status.       *)
(* Sub-processes (cargo), the git library and file writes can fail; every  *)
(* such result is chosen nondeterministically.                             *)
(***************************************************************************)
EXTENDS Integers, Sequences, FiniteSets, TLC

\* Bounds of the model.
MaxRuns == 2
MaxDeps == 2

ProjectNames == {"app"}
Frameworks == {"axum", "actix-web", "rocket", "Axum"}
DepNames == {"dotenvy", "serde"}
CrateNames == {"foo"}
Versions == {"latest", "1.2.3", ""}

VARIABLES pc, request, i, fs, cwdDeps, calls, writes, out, exit, runs

vars == <<pc, request, i, fs, cwdDeps, calls, writes, out, exit, runs>>

\* ------------------------------------------------------------------ data

\* Option<&str>: <<>> is None, <<f>> is Some(f).
NoFeature == <<>>

EmptyFiles == [p \in {} |-> ""]

\* A directory that does not exist.
NoDir ==
  [exists |-> FALSE, files |-> EmptyFiles, dirs |-> {}, deps |-> [d \in {} |-> {}],
   repo |-> [init |-> FALSE, commits |-> <<>>]]

\* A directory of that name the user already has.
UserDir ==
  [exists |-> TRUE, files |-> ("README.md" :> "notes"), dirs |-> {},
   deps |-> [d \in {} |-> {}], repo |-> [init |-> FALSE, commits |-> <<>>]]

DepLists == UNION {[1..n -> DepNames] : n \in 0..MaxDeps}

\* Cli / Commands: the parsed command line.  deps = <<>> stands for None
\* (the loop over Some(<<>>) and the skipped None branch do the same).
\* versionArg is the --version option as typed (<<>> when absent), version the
\* field clap fills in from it.
NoRequest ==
  [cmd |-> "none", name |-> "", framework |-> "", deps |-> <<>>, versionArg |-> <<>>,
   version |-> ""]

ScaffoldRequests ==
  {[cmd |-> "scaffold", name |-> n, framework |-> f, deps |-> d, versionArg |-> <<>>,
    version |-> ""] :
     n \in ProjectNames, f \in Frameworks, d \in DepLists}

ListRequests ==
  {[cmd |-> "list", name |-> "", framework |-> "", deps |-> <<>>, versionArg |-> <<>>,
    version |-> ""]}

VersionArgs == {<<>>} \cup {<<v>> : v \in Versions}

\* #[arg(short, long, default_value = "latest")]
VersionOrDefault(arg) == IF arg = <<>> THEN "latest" ELSE arg[1]

AddRequests ==
  {[cmd |-> "add", name |-> n, framework |-> "", deps |-> <<>>, versionArg |-> a,
    version |-> VersionOrDefault(a)] :
     n \in CrateNames, a \in VersionArgs}

Requests == ScaffoldRequests \cup ListRequests \cup AddRequests

\* Result of running a sub-process: it exits with success, exits with
\* failure, or cannot be run at all (status() is Err and expect panics).
Statuses == {"ok", "fail", "spawn_err"}

Call(op, project, arg, feature, status) ==
  [op |-> op, project |-> project, arg |-> arg, feature |-> feature, status |-> status]

Stdout(text) == [stream |-> "stdout", text |-> text]
Stderr(text) == [stream |-> "stderr", text |-> text]

\* ------------------------------------------------------------ templates

\* The three source bodies, each abbreviated to its distinguishing text.
AxumBody == "use axum::{routing::get, Router}; ... Hello from Axum!"
ActixBody == "use actix_web::{get, App, HttpServer, Responder, HttpResponse}; ... Hello from Actix-web!"
DefaultBody == "fn main() { println!(\"Hello, world!\"); }"
\* What `cargo new` writes to src/main.rs: the same hello-world program.
CargoMainBody == DefaultBody
GitignoreBody == "# Rust\n/target/\n\n\n# Environment\n.env\n.env.local\n.env.*.local\n\n\n"
CargoGitignoreBody == "/target\n"
ManifestBody == "[package]"

\* Variant: the framework name is matched without regard to case.
get_main_content_anycase(framework) ==
  CASE framework \in {"axum", "Axum"} -> AxumBody
    [] framework = "actix-web" -> ActixBody
    [] OTHER -> DefaultBody

get_main_content(framework) ==
  CASE framework = "axum" -> AxumBody
    [] framework = "actix-web" -> ActixBody
    [] OTHER -> DefaultBody

\* Variant: the async runtime is added before the serialization library.
ExtraDeps_swapped(framework) ==
  IF framework \in {"axum", "actix-web"}
    THEN << <<"tokio", <<"full">> >>, <<"serde", <<"derive">> >> >>
    ELSE <<>>

\* The two add_dependency calls made for the async frameworks.
ExtraDeps(framework) ==
  IF framework \in {"axum", "actix-web"}
    THEN << <<"serde", <<"derive">> >>, <<"tokio", <<"full">> >> >>
    ELSE <<>>

Modules == <<"services", "models", "handlers", "routes">>

MainPath == "src/main.rs"
ModDir(module) == "src/" \o module
ModPath(module) == "src/" \o module \o "/mod.rs"

\* ----------------------------------------------------------- exit status

\* main returns (); the process exits 0 unless it panicked (exit 101).
ExitStatus(panicked) == IF panicked THEN 101 ELSE 0

Exit(nextPc, panicked) == IF nextPc = "done" THEN ExitStatus(panicked) ELSE -1

\* ------------------------------------------------------------------ init

Init ==
  /\ pc = "idle"
  /\ request = NoRequest
  /\ i = 0
  /\ fs \in [ProjectNames -> {NoDir, UserDir}]
  /\ cwdDeps = {}
  /\ calls = <<>>
  /\ writes = <<>>
  /\ out = <<>>
  /\ exit = -1
  /\ runs = 0

\* Cli::parse(): a new invocation of the binary.
Parse ==
  /\ pc \in {"idle", "done"}
  /\ runs < MaxRuns
  /\ \E r \in Requests : request' = r
  /\ pc' = "main"
  /\ i' = 0
  /\ calls' = <<>>
  /\ writes' = <<>>
  /\ out' = <<>>
  /\ exit' = -1
  /\ runs' = runs + 1
  /\ UNCHANGED <<fs, cwdDeps>>

\* Commands::List
List ==
  /\ pc = "main"
  /\ request.cmd = "list"
  /\ out' = out \o <<Stdout("Available frameworks:"), Stdout("  - axum"),
                     Stdout("  - actix-web")>>
  /\ pc' = "done"
  /\ exit' = ExitStatus(FALSE)
  /\ UNCHANGED <<request, i, fs, cwdDeps, calls, writes, runs>>

\* ------------------------------------------------------ scaffold_project

\* `cargo new <name>` refuses a destination that already exists.
CargoNewStatuses(dir) == IF dir.exists THEN {"fail", "spawn_err"} ELSE Statuses

\* The directory `cargo new` creates: manifest, src/main.rs and, when cargo
\* sets up version control (its default outside an existing repository), a
\* .gitignore and an empty repository.
CargoNewDir(vcs) ==
  [exists |-> TRUE,
   files |-> IF vcs
               THEN ("Cargo.toml" :> ManifestBody) @@ (MainPath :> CargoMainBody)
                      @@ (".gitignore" :> CargoGitignoreBody)
               ELSE ("Cargo.toml" :> ManifestBody) @@ (MainPath :> CargoMainBody),
   dirs |-> {"src"},
   deps |-> [d \in {} |-> {}],
   repo |-> [init |-> vcs, commits |-> <<>>]]

\* Variant: the `return` after a failed `cargo new` is missing.
AfterCargoNew_noreturn(st) == IF st = "spawn_err" THEN "done" ELSE "framework"

\* Where scaffold_project goes after `cargo new`: `return` unless it succeeded.
AfterCargoNew(st) == IF st = "ok" THEN "framework" ELSE "done"

CargoNew ==
  /\ pc = "main"
  /\ request.cmd = "scaffold"
  /\ \E st \in CargoNewStatuses(fs[request.name]), vcs \in BOOLEAN :
       /\ st # "ok" => vcs
       /\ calls' = Append(calls, Call("cargo_new", request.name, request.name, NoFeature, st))
       /\ fs' = IF st = "ok" THEN [fs EXCEPT ![request.name] = CargoNewDir(vcs)] ELSE fs
       /\ out' = out \o <<Stdout("Creating new Cargo project: " \o request.name)>>
                   \o (CASE st = "ok" -> <<>>
                         [] st = "fail" ->
                              <<Stderr("Failed to create project '" \o request.name \o "'")>>
                         [] st = "spawn_err" -> <<Stderr("Failed to run cargo new")>>)
       /\ pc' = AfterCargoNew(st)
       /\ exit' = Exit(pc', st = "spawn_err")
  /\ UNCHANGED <<request, i, cwdDeps, writes, runs>>

\* `cargo add <dep> [--features <feat>]` in the project directory: the
\* manifest's dependency table gains the dependency and the features.
CargoAdd(dir, dep, features) ==
  [dir EXCEPT !.deps =
     (dep :> ((IF dep \in DOMAIN dir.deps THEN dir.deps[dep] ELSE {})
                \cup {features[k] : k \in 1..Len(features)})) @@ dir.deps]

\* add_dependency(project_name, dep, features): the call, its status st and
\* its effect on the file system.
add_dependency(project_name, dep, features, st) ==
  /\ calls' = Append(calls, Call("add_dependency", project_name, dep, features, st))
  /\ fs' = IF st = "ok"
             THEN [fs EXCEPT ![project_name] = CargoAdd(fs[project_name], dep, features)]
             ELSE fs

\* After the framework dependency: `return` unless it was added, else the
\* loop over the additional dependencies (skipped when there are none).
AfterFramework(st, deps) ==
  IF st = "ok" THEN (IF deps # <<>> THEN "deps" ELSE "write_main") ELSE "done"

AddFramework ==
  /\ pc = "framework"
  /\ \E st \in Statuses :
       /\ add_dependency(request.name, request.framework, NoFeature, st)
       /\ out' = out \o <<Stdout("Adding " \o request.framework \o " to " \o request.name)>>
                   \o (CASE st = "ok" -> <<>>
                         [] st = "fail" ->
                              <<Stderr("Failed to add framework dependency '"
                                         \o request.framework \o "'")>>
                         [] st = "spawn_err" -> <<Stderr("Failed to run cargo add")>>)
       /\ pc' = AfterFramework(st, request.deps)
       /\ exit' = Exit(pc', st = "spawn_err")
  /\ i' = 0
  /\ UNCHANGED <<request, cwdDeps, writes, runs>>

\* Variant: the result of adding an additional dependency is dropped.
AfterDep_ignored(st, k, deps) ==
  IF st = "spawn_err" THEN "done" ELSE IF k < Len(deps) THEN "deps" ELSE "write_main"

\* After the k-th additional dependency of deps: `return` unless it was
\* added, else the next one, else on to writing main.rs.
AfterDep(st, k, deps) ==
  IF st = "ok" THEN (IF k < Len(deps) THEN "deps" ELSE "write_main") ELSE "done"

AddDep ==
  /\ pc = "deps"
  /\ i < Len(request.deps)
  /\ \E st \in Statuses :
       /\ add_dependency(request.name, request.deps[i + 1], NoFeature, st)
       /\ out' = out \o (CASE st = "ok" -> <<>>
                           [] st = "fail" ->
                                <<Stderr("Failed to add dependency '"
                                           \o request.deps[i + 1] \o "'")>>
                           [] st = "spawn_err" -> <<Stderr("Failed to run cargo add")>>)
       /\ pc' = AfterDep(st, i + 1, request.deps)
       /\ exit' = Exit(pc', st = "spawn_err")
  /\ i' = i + 1
  /\ UNCHANGED <<request, cwdDeps, writes, runs>>

\* After main.rs is written: the template's dependencies, if any.
AfterWriteMain(framework) == IF ExtraDeps(framework) # <<>> THEN "extra" ELSE "modules"

\* fs::write(main_path, get_main_content(framework)).expect(..)
WriteMain ==
  /\ pc = "write_main"
  /\ \E ok \in BOOLEAN :
       IF ok
         THEN /\ fs' = [fs EXCEPT ![request.name].files =
                          (MainPath :> get_main_content(request.framework)) @@ @]
              /\ writes' = Append(writes, MainPath)
              /\ out' = out
              /\ pc' = AfterWriteMain(request.framework)
              /\ exit' = -1
         ELSE /\ out' = Append(out, Stderr("Failed to write main.rs"))
              /\ pc' = "done"
              /\ exit' = ExitStatus(TRUE)
              /\ UNCHANGED <<fs, writes>>
  /\ i' = 0
  /\ UNCHANGED <<request, cwdDeps, calls, runs>>

\* After the k-th template dependency: its result is dropped, so the next
\* statement runs whether or not cargo added it.
AfterExtraDep(st, k, extra) ==
  IF st = "spawn_err" THEN "done" ELSE IF k < Len(extra) THEN "extra" ELSE "modules"

AddExtraDep ==
  /\ pc = "extra"
  /\ i < Len(ExtraDeps(request.framework))
  /\ LET e == ExtraDeps(request.framework)[i + 1] IN
     \E st \in Statuses :
       /\ add_dependency(request.name, e[1], e[2], st)
       /\ out' = out \o (IF st = "spawn_err"
                           THEN <<Stderr("Failed to run cargo add")>> ELSE <<>>)
       /\ pc' = AfterExtraDep(st, i + 1, ExtraDeps(request.framework))
       /\ exit' = Exit(pc', st = "spawn_err")
  /\ i' = IF pc' = "extra" THEN i + 1 ELSE 0
  /\ UNCHANGED <<request, cwdDeps, writes, runs>>

\* create_module_dir(project_name, module_name): create_dir_all, then write
\* an empty mod.rs; either can fail, and then the process panics.
ModuleOutcomes == {"ok", "mkdir_err", "write_err"}

create_module_dir(project_name, module_name, res) ==
  /\ calls' = Append(calls, Call("create_module_dir", project_name, module_name, NoFeature, res))
  /\ fs' = CASE res = "ok" ->
                  [fs EXCEPT ![project_name].dirs = @ \cup {ModDir(module_name)},
                             ![project_name].files = (ModPath(module_name) :> "") @@ @]
             [] res = "write_err" ->
                  [fs EXCEPT ![project_name].dirs = @ \cup {ModDir(module_name)}]
             [] res = "mkdir_err" -> fs
  /\ writes' = CASE res = "ok" -> writes \o <<ModDir(module_name), ModPath(module_name)>>
                 [] res = "write_err" -> Append(writes, ModDir(module_name))
                 [] res = "mkdir_err" -> writes
  /\ out' = CASE res = "ok" -> out
              [] res = "write_err" ->
                   Append(out, Stderr("Failed to create " \o module_name \o "/mod.rs"))
              [] res = "mkdir_err" ->
                   Append(out, Stderr("Failed to create " \o module_name \o " directory"))

\* After the k-th module directory: the next one, then the ignore file.
AfterModule(res, k) ==
  IF res # "ok" THEN "done" ELSE IF k < Len(Modules) THEN "modules" ELSE "gitignore"

CreateModuleDir ==
  /\ pc = "modules"
  /\ i < Len(Modules)
  /\ \E res \in ModuleOutcomes :
       /\ create_module_dir(request.name, Modules[i + 1], res)
       /\ pc' = AfterModule(res, i + 1)
       /\ exit' = Exit(pc', res # "ok")
  /\ i' = IF pc' = "modules" THEN i + 1 ELSE 0
  /\ UNCHANGED <<request, cwdDeps, runs>>

\* create_gitignore(project_name): fs::write of the fixed body, or a panic.
create_gitignore(project_name, ok) ==
  /\ calls' = Append(calls, Call("create_gitignore", project_name, ".gitignore", NoFeature,
                                 IF ok THEN "ok" ELSE "write_err"))
  /\ fs' = IF ok
             THEN [fs EXCEPT ![project_name].files = (".gitignore" :> GitignoreBody) @@ @]
             ELSE fs
  /\ writes' = IF ok THEN Append(writes, ".gitignore") ELSE writes

CreateGitignore ==
  /\ pc = "gitignore"
  /\ \E ok \in BOOLEAN :
       /\ create_gitignore(request.name, ok)
       /\ out' = out \o <<Stdout("Creating .gitignore file")>>
                   \o (IF ok THEN <<>> ELSE <<Stderr("Failed to create .gitignore file")>>)
       /\ pc' = IF ok THEN "git" ELSE "done"
       /\ exit' = Exit(pc', ~ok)
  /\ UNCHANGED <<request, i, cwdDeps, runs>>

\* Variant: the ignore file is left out of the index.
StagedTree_nodotfiles(dir) ==
  [p \in DOMAIN dir.files \ {".gitignore"} |-> dir.files[p]]

\* index.add_all(["."]): every file below the project directory is staged
\* (no file this tool or cargo creates there matches the ignore patterns;
\* directories are not tree entries of their own).
StagedTree(dir) == dir.files

\* init_git_repo(project_name).  Repository::init can fail (init_err), or a
\* later call can (git_err) and then the repository exists without a commit;
\* a commit without parents is refused when HEAD already has one.
GitOutcomes(dir) ==
  IF dir.repo.commits = <<>> THEN {"ok", "init_err", "git_err"} ELSE {"init_err", "git_err"}

init_git_repo(dir, res) ==
  CASE res = "init_err" -> dir
    [] res = "git_err" -> [dir EXCEPT !.repo.init = TRUE]
    [] res = "ok" ->
         [dir EXCEPT !.repo =
            [init |-> TRUE,
             commits |-> Append(dir.repo.commits,
                                [tree |-> StagedTree(dir), deps |-> dir.deps,
                                 parents |-> <<>>,
                                 author |-> "Rust Backend Scaffolder",
                                 message |-> "Initial commit: Scaffolded project"])]]

\* Variant: the Err arm of the match returns.
AfterGit_return(res) == IF res = "ok" THEN "final" ELSE "done"

\* After init_git_repo: both arms of the match fall through to the end.
AfterGit(res) == "final"

InitGitRepo ==
  /\ pc = "git"
  /\ \E res \in GitOutcomes(fs[request.name]) :
       /\ calls' = Append(calls, Call("init_git_repo", request.name, request.name, NoFeature, res))
       /\ fs' = [fs EXCEPT ![request.name] = init_git_repo(@, res)]
       /\ out' = out \o <<Stdout("Initializing git repository"),
                          IF res = "ok"
                            THEN Stdout("Git repository initialized successfully")
                            ELSE Stderr("Failed to initialize git repository: " \o res)>>
       /\ pc' = AfterGit(res)
       /\ exit' = Exit(pc', FALSE)
  /\ UNCHANGED <<request, i, cwdDeps, writes, runs>>

\* The two closing println! of scaffold_project, then main returns.
Final ==
  /\ pc = "final"
  /\ out' = out \o <<Stdout("Project '" \o request.name \o "' scaffolded successfully!"),
                     Stdout("cd " \o request.name \o " && cargo run")>>
  /\ pc' = "done"
  /\ exit' = ExitStatus(FALSE)
  /\ UNCHANGED <<request, i, fs, cwdDeps, calls, writes, runs>>

\* ------------------------------------------------------------ Commands::Add

\* Variant: the version qualifier is always appended.
AddArg_always(name, version) == name \o "@" \o version

\* The argument handed to `cargo add`.
AddArg(name, version) == IF version = "latest" THEN name ELSE name \o "@" \o version

Add ==
  /\ pc = "main"
  /\ request.cmd = "add"
  /\ \E st \in Statuses :
       /\ calls' = Append(calls, Call("cargo_add", ".", AddArg(request.name, request.version),
                                      NoFeature, st))
       /\ cwdDeps' = IF st = "ok"
                       THEN cwdDeps \cup {AddArg(request.name, request.version)}
                       ELSE cwdDeps
       /\ out' = Append(out,
                   CASE st = "ok" -> Stdout("Added " \o request.name \o " successfully!")
                     [] st = "fail" -> Stderr("Failed to add " \o request.name)
                     [] st = "spawn_err" -> Stderr("Failed to run cargo add"))
       /\ exit' = ExitStatus(st = "spawn_err")
  /\ pc' = "done"
  /\ UNCHANGED <<request, i, fs, writes, runs>>

\* ------------------------------------------------------------------ spec

Next ==
  \/ Parse
  \/ List
  \/ Add
  \/ CargoNew
  \/ AddFramework
  \/ AddDep
  \/ WriteMain
  \/ AddExtraDep
  \/ CreateModuleDir
  \/ CreateGitignore
  \/ InitGitRepo
  \/ Final

Spec == Init /\ [][Next]_vars

TypeOK ==
  /\ pc \in {"idle", "main", "framework", "deps", "write_main", "extra", "modules",
             "gitignore", "git", "final", "done"}
  /\ request \in Requests \cup {NoRequest}
  /\ runs \in 0..MaxRuns
  /\ (pc = "done") <=> (exit # -1)

\* ---------------------------------------------------------------- claims

Scaffolding == request.cmd = "scaffold"
Dir == fs[request.name]

AllCallsOk == \A k \in 1..Len(calls) : calls[k].status = "ok"
Reported == \E k \in 1..Len(out) : out[k].stream = "stderr"
Printed(line) == \E k \in 1..Len(out) : out[k] = line

\* The run reached the end of scaffold_project and no step of it failed.
AllStepsSucceeded == Scaffolding /\ pc = "done" /\ exit = 0 /\ AllCallsOk

IsPrefix(s, t) == Len(s) <= Len(t) /\ \A k \in 1..Len(s) : s[k] = t[k]

ProjectFiles ==
  {"Cargo.toml", MainPath, ".gitignore"} \cup {ModPath(Modules[k]) : k \in 1..Len(Modules)}

\* The paths scaffold_project itself writes, in order.
AllWrites ==
  <<MainPath>>
    \o <<ModDir("services"), ModPath("services"), ModDir("models"), ModPath("models"),
         ModDir("handlers"), ModPath("handlers"), ModDir("routes"), ModPath("routes")>>
    \o <<".gitignore">>

AxumCalls(name) ==
  <<Call("cargo_new", name, name, NoFeature, "ok"),
    Call("add_dependency", name, "axum", NoFeature, "ok"),
    Call("add_dependency", name, "serde", <<"derive">>, "ok"),
    Call("add_dependency", name, "tokio", <<"full">>, "ok"),
    Call("create_module_dir", name, "services", NoFeature, "ok"),
    Call("create_module_dir", name, "models", NoFeature, "ok"),
    Call("create_module_dir", name, "handlers", NoFeature, "ok"),
    Call("create_module_dir", name, "routes", NoFeature, "ok"),
    Call("create_gitignore", name, ".gitignore", NoFeature, "ok"),
    Call("init_git_repo", name, name, NoFeature, "ok")>>

\* C1: scaffold with framework "axum", no additional dependencies and every
\* step succeeding makes exactly these calls, in this order, none repeated:
\* cargo new, add axum, add serde with derive, add tokio with full, the four
\* module directories (services, models, handlers, routes), the ignore file,
\* the repository initialization.  While the run is under way the calls made
\* so far are a prefix of that sequence.
C1_AxumCallSequence ==
  (Scaffolding /\ request.framework = "axum" /\ request.deps = <<>> /\ AllCallsOk)
    => /\ IsPrefix(calls, AxumCalls(request.name))
       /\ (pc = "done" /\ exit = 0) => calls = AxumCalls(request.name)

C1_Witness ==
  /\ AllStepsSucceeded
  /\ request.framework = "axum"
  /\ request.deps = <<>>
  /\ Len(calls) = 10

\* C2: the exit status is nonzero exactly when a failure was reported during
\* the run (a failed project creation, dependency add or repository
\* initialization in scaffold, a failed cargo add in the pass-through add).
C2_ExitStatusReflectsFailure ==
  pc = "done" => ((exit # 0) <=> Reported)

\* C3: when the project directory exists as scaffold starts, cargo new fails
\* and the run ends at step 1: no add_dependency call, nothing written, the
\* file system as it was, a failure reported.  A directory, once there, stays,
\* and a run that gets past step 1 has created it, so a later scaffold of the
\* same name ends at step 1.
C3_ExistingDirAborts ==
  [][/\ (pc = "main" /\ Scaffolding /\ Dir.exists)
          => /\ pc' = "done"
             /\ fs' = fs
             /\ writes' = <<>>
             /\ Len(calls') = 1
             /\ calls'[1].op = "cargo_new"
             /\ calls'[1].status # "ok"
             /\ \E k \in 1..Len(out') : out'[k].stream = "stderr"
     /\ (pc = "main" /\ Scaffolding /\ pc' # "done") => fs'[request.name].exists
     /\ \A n \in ProjectNames : fs[n].exists => fs'[n].exists]_vars

\* A second scaffold of a name that the first one scaffolded in full has ended.
C3_Witness ==
  /\ Scaffolding
  /\ pc = "done"
  /\ runs = 2
  /\ Len(Dir.repo.commits) = 1
  /\ Len(calls) = 1
  /\ calls[1].status = "fail"

\* The add_dependency calls for the framework and the additional dependencies.
IsPlainAdd(c) == c.op = "add_dependency" /\ c.feature = NoFeature
PlainAdds == SelectSeq(calls, IsPlainAdd)

\* C4: the framework dependency and then the additional dependencies are added
\* in the order given, each only after the ones before it succeeded; when one
\* of them fails it is the last call of the run: the run has ended, main.rs is
\* not overwritten, nothing else is written and no repository is initialized.
C4_EarlyExitOnDependencyFailure ==
  Scaffolding =>
    /\ IsPrefix([k \in 1..Len(PlainAdds) |-> PlainAdds[k].arg],
                <<request.framework>> \o request.deps)
    /\ \A k \in 1..Len(PlainAdds) : k < Len(PlainAdds) => PlainAdds[k].status = "ok"
    /\ \A k \in 1..Len(calls) :
         (IsPlainAdd(calls[k]) /\ calls[k].status # "ok")
           => /\ k = Len(calls)
              /\ pc = "done"
              /\ writes = <<>>
              /\ Dir.files[MainPath] = CargoMainBody
              /\ Dir.dirs = {"src"}
              /\ Dir.repo.commits = <<>>

\* The first of two additional dependencies failed; the second was not tried.
C4_Witness ==
  /\ Scaffolding
  /\ pc = "done"
  /\ Len(request.deps) = 2
  /\ Len(calls) = 3
  /\ calls[3].status = "fail"

\* C5: at the end of a scaffold run either every step succeeded or a failure
\* was reported for the step that did not.
C5_FailureIsReported ==
  (Scaffolding /\ pc = "done") => (AllCallsOk /\ exit = 0) \/ Reported

\* C6: a failed package-manager call ends the workflow with a failure
\* message; in particular no step runs after a failed add of serde or tokio.
C6_PackageManagerFailureAborts ==
  Scaffolding =>
    \A k \in 1..Len(calls) :
      (calls[k].op \in {"cargo_new", "add_dependency"} /\ calls[k].status # "ok")
        => k = Len(calls) /\ pc = "done" /\ Reported

\* C7: the add command runs cargo add exactly once, with the bare crate name
\* when --version is absent or "latest", and with <name>@<version> otherwise.
C7_AddPassThrough ==
  (request.cmd = "add" /\ pc = "done") =>
    /\ Len(calls) = 1
    /\ calls[1].op = "cargo_add"
    /\ calls[1].feature = NoFeature
    /\ calls[1].arg = IF request.versionArg \in {<<>>, <<"latest">>}
                        THEN request.name
                        ELSE request.name \o "@" \o request.versionArg[1]
    /\ (request.name = "foo" /\ request.versionArg = <<"1.2.3">>) => calls[1].arg = "foo@1.2.3"

C7_Witness ==
  /\ request.cmd = "add"
  /\ pc = "done"
  /\ request.versionArg = <<"1.2.3">>
  /\ calls[1].arg = "foo@1.2.3"
  /\ "foo" \in cwdDeps

\* The add_dependency calls that carry a feature: those the template asks for.
IsTemplateAdd(c) == c.op = "add_dependency" /\ c.feature # NoFeature
TemplateAdds == SelectSeq(calls, IsTemplateAdd)
TemplatePairs == [k \in 1..Len(TemplateAdds) |-> <<TemplateAdds[k].arg, TemplateAdds[k].feature>>]
SerdeTokio == << <<"serde", <<"derive">> >>, <<"tokio", <<"full">> >> >>

\* C8: every framework name has a source body, which is never empty; a name
\* other than "axum" and "actix-web" gets the default hello-world body and no
\* template dependency (no add_dependency call with a feature), and the run
\* goes on to the module directories; "axum" and "actix-web" get exactly
\* serde with derive, then tokio with full.
C8_TemplateLookup ==
  Scaffolding =>
    /\ writes # <<>>
         => /\ Dir.files[MainPath] # ""
            /\ request.framework \notin {"axum", "actix-web"}
                 => Dir.files[MainPath] = DefaultBody
            /\ request.framework = "axum" => Dir.files[MainPath] = AxumBody
            /\ request.framework = "actix-web" => Dir.files[MainPath] = ActixBody
    /\ request.framework \notin {"axum", "actix-web"}
         => TemplateAdds = <<>> /\ pc # "extra"
    /\ request.framework \in {"axum", "actix-web"}
         => /\ IsPrefix(TemplatePairs, SerdeTokio)
            /\ pc \in {"modules", "gitignore", "git", "final"} => TemplatePairs = SerdeTokio

\* A scaffold with a framework name that differs from "axum" only in case has
\* written the default body and is creating the module directories.
C8_Witness ==
  /\ Scaffolding
  /\ request.framework = "Axum"
  /\ pc = "modules"
  /\ Dir.files[MainPath] = DefaultBody
  /\ TemplateAdds = <<>>

GitFailed ==
  /\ Scaffolding
  /\ calls # <<>>
  /\ calls[Len(calls)].op = "init_git_repo"
  /\ calls[Len(calls)].status # "ok"

\* C9: when the repository initialization fails, the failure is reported,
\* the files written before stay (main.rs, the four mod.rs, the ignore file),
\* no step ran after it, and the run ends normally with the closing
\* 'scaffolded successfully' message.
C9_GitFailureDoesNotAbort ==
  GitFailed =>
    /\ Reported
    /\ Printed(Stderr("Failed to initialize git repository: " \o calls[Len(calls)].status))
    /\ ProjectFiles \subseteq DOMAIN Dir.files
    /\ Dir.files[MainPath] = get_main_content(request.framework)
    /\ \A k \in 1..Len(Modules) : Dir.files[ModPath(Modules[k])] = ""
    /\ Dir.files[".gitignore"] = GitignoreBody
    /\ writes = AllWrites
    /\ Dir.repo.commits = <<>>
    /\ pc \in {"final", "done"}
    /\ pc = "done"
         => /\ exit = 0
            /\ Printed(Stdout("Project '" \o request.name \o "' scaffolded successfully!"))

C9_Witness ==
  /\ GitFailed
  /\ pc = "done"
  /\ Printed(Stdout("Project '" \o request.name \o "' scaffolded successfully!"))

\* C10: after a scaffold run in which every step succeeded the repository has
\* exactly one commit, without parents, whose tree holds every file of the
\* project directory with its content: the manifest, the main.rs written from
\* the template, the four empty mod.rs and the ignore file.  The repository
\* is initialized only after all file writes of the run, and nothing is
\* written after it.
C10_SingleCommitOfAllFiles ==
  /\ AllStepsSucceeded
       => /\ Len(Dir.repo.commits) = 1
          /\ Dir.repo.commits[1].parents = <<>>
          /\ Dir.repo.commits[1].tree = Dir.files
          /\ Dir.repo.commits[1].deps = Dir.deps
          /\ DOMAIN Dir.repo.commits[1].tree = ProjectFiles
          /\ Dir.repo.commits[1].tree[MainPath] = get_main_content(request.framework)
          /\ \A k \in 1..Len(Modules) : Dir.repo.commits[1].tree[ModPath(Modules[k])] = ""
          /\ Dir.repo.commits[1].tree[".gitignore"] = GitignoreBody
  /\ Scaffolding
       => \A k \in 1..Len(calls) :
            calls[k].op = "init_git_repo"
              => /\ k = Len(calls)
                 /\ writes = AllWrites
                 /\ calls[k].status = "ok" => Dir.repo.commits[1].tree = Dir.files

C10_Witness ==
  /\ AllStepsSucceeded
  /\ request.framework = "actix-web"
  /\ Len(request.deps) = 2
  /\ Len(Dir.repo.commits) = 1
  /\ ".gitignore" \in DOMAIN Dir.repo.commits[1].tree
====
